---------------------------- MODULE Spec2Model ----------------------------
(***************************************************************************)
(* A model of the RPP / DRPP solver pipeline of RppPrototype:              *)
(*   src/rpp/rpp_solver.py   solve_rpp, solve_drpp, compute_scc_index,     *)
(*                           find_drpp_blocking_edges, add_*_with_geometry *)
(*   src/main.py             main (blocker dropping, endpoint selection)   *)
(* Graphs are finite: a driving / service graph is a function from its     *)
(* arcs <<u, v>> to their weight, the required graph R is a set of arcs    *)
(* (an undirected edge is kept as <<u, v>> with u < v), and the Eulerian   *)
(* multigraph E is the sequence of the edges added to it, in the order of  *)
(* the add_edge calls (the position of an edge is its identity).           *)
(***************************************************************************)
EXTENDS Integers, Sequences, FiniteSets, TLC

\* ---- bounds of the model ------------------------------------------------
NumNodes == 4
NumNodesOpen == 3
MaxStreets == 3
MaxReq == 3
MaxExportEdges == 2
MaxMainStreets == 2
MaxTags == 3
MaxTokens == 2
MaxTaggedEdges == 2

VARIABLES
    directed,         \* args.directed_service: TRUE = solve_drpp, FALSE = solve_rpp
    G_drive,          \* driving graph: [arcs -> weight]
    G_service,        \* service graph: [arcs -> weight] (symmetric when undirected)
    R_built,          \* R as the required-edge extractor built it
    R,                \* the arcs of R as the solver sees it
    R_nodes,          \* the nodes of R
    drop_blockers,    \* args.drop_drpp_blockers
    largest_scc,      \* the SCC compute_scc_index chose as largest ({} = None)
    reps,             \* component representatives, in list order
    connector_paths,  \* one node path per adjacent pair of representatives
    E,                \* the multigraph under construction
    start_node,       \* 0 = None
    end_node,         \* 0 = None
    sp_cache,         \* [pairs -> node path]
    matching,         \* solve_rpp: the matched pairs
    flow_result,      \* solve_drpp: [pairs -> flow]
    pc,               \* position in main / the solver
    err,              \* the error raised ("none" while running)
    start_request,    \* main: --start as a point (0 = None)
    end_request,      \* main: --end as a point (0 = None)
    blockers_gpx,     \* main: args.drpp_blockers_gpx is given
    snapped,          \* what select_start_node returned ([node |-> 0] before)
    files,            \* the files written so far
    tour,             \* export_gpx: the edges (u, v, key) in travel order
    track,            \* export_gpx: the points of the track segment
    node_xy,          \* the coordinates of the nodes of G
    geom,             \* the stored polyline of every edge of G (<<>> = None)
    data,             \* is_driveable_edge: the tags of the edge
    driveable,        \* is_driveable_edge: the result ("none" before)
    G_tagged          \* required-edge extraction: the arcs of the input graph

\* the state of main's argument handling, of the exporter and of the
\* extraction functions
envVars == <<start_request, end_request, blockers_gpx, snapped, files, tour,
             track, node_xy, geom, data, driveable, G_tagged>>

vars == <<directed, G_drive, G_service, R_built, R, R_nodes, drop_blockers,
          largest_scc, reps,
          connector_paths, E, start_node, end_node, sp_cache, matching,
          flow_result, pc, err, envVars>>

\* ---- finite graphs ------------------------------------------------------
MaxNodes == IF NumNodes > NumNodesOpen THEN NumNodes ELSE NumNodesOpen

Nodes == 1..MaxNodes

Pairs == {p \in Nodes \X Nodes : p[1] < p[2]}

Rev(a) == <<a[2], a[1]>>

Sym(A) == A \cup {Rev(a) : a \in A}

NodesOf(A) == {a[1] : a \in A} \cup {a[2] : a \in A}

\* the nodes reachable from the set S along arcs of A in at most k steps
RECURSIVE ReachFrom(_, _, _)
ReachFrom(A, S, k) ==
    IF k = 0 THEN S
    ELSE ReachFrom(A, S \cup {a[2] : a \in {x \in A : x[1] \in S}}, k - 1)

Reachable(A, n) == ReachFrom(A, {n}, MaxNodes)

\* nx.connected_components / nx.weakly_connected_components over node set V
Components(A, V) == {Reachable(Sym(A), n) : n \in V}

\* nx.strongly_connected_components over node set V
SCCs(A, V) == {{m \in Reachable(A, n) : n \in Reachable(A, m)} : n \in V}

RECURSIVE SeqSum(_)
SeqSum(s) == IF s = <<>> THEN 0 ELSE Head(s) + SeqSum(Tail(s))

Reverse(p) == [i \in 1..Len(p) |-> p[Len(p) + 1 - i]]

\* zip(path[:-1], path[1:])
PathArcs(p) == [i \in 1..(Len(p) - 1) |-> <<p[i], p[i + 1]>>]

PathWeight(G, p) == SeqSum([i \in 1..(Len(p) - 1) |-> G[<<p[i], p[i + 1]>>]])

\* the simple paths of G that extend the path p to the node b
RECURSIVE PathsVia(_, _, _)
PathsVia(G, p, b) ==
    IF p[Len(p)] = b THEN {p}
    ELSE UNION {PathsVia(G, Append(p, a[2]), b) :
                  a \in {x \in DOMAIN G :
                            /\ x[1] = p[Len(p)]
                            /\ \A i \in DOMAIN p : p[i] # x[2]}}

PathsFromTo(G, a, b) == PathsVia(G, <<a>>, b)

\* nx.single_source_dijkstra(G, a, b, weight="weight"): the paths it may
\* return (ties are broken by adjacency order); {} stands for NetworkXNoPath
ShortestPaths(G, a, b) ==
    LET ps == PathsFromTo(G, a, b)
    IN {p \in ps : \A q \in ps : PathWeight(G, p) <= PathWeight(G, q)}

\* the direction b -> a is tried first
PathEitherWay_BackwardFirst(G, a, b) ==
    LET bwd == {Reverse(p) : p \in ShortestPaths(G, b, a)}
    IN IF bwd # {} THEN bwd ELSE ShortestPaths(G, a, b)

\* the try / except NetworkXNoPath pair of solve_rpp and solve_drpp: the
\* path a -> b, else the path b -> a reversed; {} when neither exists
PathEitherWay(G, a, b) ==
    LET fwd == ShortestPaths(G, a, b)
    IN IF fwd # {} THEN fwd ELSE {Reverse(p) : p \in ShortestPaths(G, b, a)}

\* ---- sequences from sets -----------------------------------------------
ArcLess(a, b) == a[1] < b[1] \/ (a[1] = b[1] /\ a[2] < b[2])

RECURSIVE SortedArcs(_)
SortedArcs(A) ==
    IF A = {} THEN <<>>
    ELSE LET m == CHOOSE x \in A : \A y \in A : x = y \/ ArcLess(x, y)
         IN <<m>> \o SortedArcs(A \ {m})

\* reps = [next(iter(c)) for c in components]: one node of every
\* component, the components in the order the library lists them
RepChoices(comps) ==
    LET n == Cardinality(comps)
    IN {r \in [1..n -> UNION comps] :
            \A i, j \in 1..n :
                i # j => \A c \in comps : ~(r[i] \in c /\ r[j] \in c)}

\* nx.strongly_connected_components lists the SCCs as Tarjan's algorithm
\* completes them: an SCC comes after every SCC that can be reached from it
SccRepChoices(A, V) ==
    {r \in RepChoices(SCCs(A, V)) :
        \A i, j \in DOMAIN r : i < j => r[j] \notin Reachable(A, r[i])}

\* one path for every pair of the list: the sequences of paths the
\* shortest-path calls may produce; {} when some call raises NetworkXNoPath
RECURSIVE PathChoices(_, _, _)
PathChoices(G, arcs, bothWays) ==
    IF arcs = <<>> THEN {<<>>}
    ELSE LET a == Head(arcs)
             hs == IF bothWays THEN PathEitherWay(G, a[1], a[2])
                   ELSE ShortestPaths(G, a[1], a[2])
         IN {<<h>> \o t : h \in hs, t \in PathChoices(G, Tail(arcs), bothWays)}

\* for a, b in zip(reps[:-1], reps[1:]): the connector paths
ConnectorChoices(G, rs) == PathChoices(G, PathArcs(rs), TRUE)

\* ---- the multigraph E ---------------------------------------------------
Edge(u, v, kind, w) == [u |-> u, v |-> v, kind |-> kind, w |-> w]

ENodes(Es) == {Es[i].u : i \in DOMAIN Es} \cup {Es[i].v : i \in DOMAIN Es}

EArcs(Es) == {<<Es[i].u, Es[i].v>> : i \in DOMAIN Es}

OutDeg(Es, n) == Cardinality({i \in DOMAIN Es : Es[i].u = n})

InDeg(Es, n) == Cardinality({i \in DOMAIN Es : Es[i].v = n})

\* MultiGraph.degree: a self-loop counts twice
Degree(Es, n) == OutDeg(Es, n) + InDeg(Es, n)

OddNodes(Es) == {n \in ENodes(Es) : Degree(Es, n) % 2 = 1}

Delta(Es, n) == OutDeg(Es, n) - InDeg(Es, n)

\* add_edge_with_geometry / add_arc_with_geometry: the edge data is looked
\* up in the service graph, and a missing entry raises
\* the arc is looked up as (u, v) and added as (v, u)
add_arc_with_geometry_Swapped(res, S, u, v, kind) ==
    IF ~res.ok THEN res
    ELSE IF <<u, v>> \notin DOMAIN S THEN [ok |-> FALSE, E |-> res.E]
    ELSE [ok |-> TRUE, E |-> Append(res.E, Edge(v, u, kind, S[<<u, v>>]))]

\* res is [ok, E]: ok is FALSE once a call has raised
add_edge_with_geometry(res, S, u, v, kind) ==
    IF ~res.ok THEN res
    ELSE IF <<u, v>> \notin DOMAIN S THEN [ok |-> FALSE, E |-> res.E]
    ELSE [ok |-> TRUE, E |-> Append(res.E, Edge(u, v, kind, S[<<u, v>>]))]

add_arc_with_geometry(res, S, u, v, kind) ==
    IF ~res.ok THEN res
    ELSE IF <<u, v>> \notin DOMAIN S THEN [ok |-> FALSE, E |-> res.E]
    ELSE [ok |-> TRUE, E |-> Append(res.E, Edge(u, v, kind, S[<<u, v>>]))]

\* for u, v in arcs: add_edge_with_geometry / add_arc_with_geometry
RECURSIVE AddArcs(_, _, _, _, _)
AddArcs(res, S, arcs, kind, dir) ==
    IF arcs = <<>> THEN res
    ELSE LET a == Head(arcs)
         IN AddArcs(IF dir THEN add_arc_with_geometry(res, S, a[1], a[2], kind)
                    ELSE add_edge_with_geometry(res, S, a[1], a[2], kind),
                    S, Tail(arcs), kind, dir)

\* for path in paths: for u, v in zip(path[:-1], path[1:])
RECURSIVE AddPaths(_, _, _, _, _)
AddPaths(res, S, paths, kind, dir) ==
    IF paths = <<>> THEN res
    ELSE AddPaths(AddArcs(res, S, PathArcs(Head(paths)), kind, dir),
                  S, Tail(paths), kind, dir)

\* ---- inputs ------------------------------------------------------------
\* a street joins a pair of nodes, is drivable one way or both, and has a
\* length; load_graphs turns the streets into the driving graph and the
\* service graph
Canon(a) == IF a[1] < a[2] THEN a ELSE Rev(a)

StreetSets(n) ==
    {Ps \in SUBSET {p \in Pairs : p[2] <= n} : Cardinality(Ps) <= MaxStreets}

\* the nodes lie on a line, one unit apart, and a longer street is a
\* slower one: a detour over short streets can beat a direct long street
StreetLength(p) == (p[2] - p[1]) * (p[2] - p[1])

Layouts(Ps) == [Ps -> {"fwd", "bwd", "both"}]

DriveArcs(Ps, f) ==
    {p \in Ps : f[p] \in {"fwd", "both"}}
        \cup {Rev(p) : p \in {q \in Ps : f[q] \in {"bwd", "both"}}}

\* G_drive = G_filt: the directed, one-way aware graph
DriveGraph(Ps, f) == [a \in DriveArcs(Ps, f) |-> StreetLength(Canon(a))]

\* G_service = ox.convert.to_undirected(G_filt)
UndirectedGraph(Ps, f) == [a \in Sym(Ps) |-> StreetLength(Canon(a))]

\* build_required_graph_undirected / _directed: R holds the edges of the
\* service graph whose highway class is a required one (any subset of them)
RequiredChoices(A) == {Q \in SUBSET A : Cardinality(Q) <= MaxReq}

NoPaths == <<>>

NoCache == <<>>

NoSnap == [node |-> 0, coords |-> 0, distance |-> 0, strategy |-> ""]

\* nothing requested, nothing written, no function applied yet
InitEnv ==
    /\ start_request = 0
    /\ end_request = 0
    /\ blockers_gpx = FALSE
    /\ snapped = NoSnap
    /\ files = {}
    /\ tour = <<>>
    /\ track = <<>>
    /\ node_xy = <<>>
    /\ geom = <<>>
    /\ data = <<>>
    /\ driveable = "none"
    /\ G_tagged = <<>>

InitCommon ==
    /\ R = R_built
    /\ R_nodes = NodesOf(R_built)
    /\ drop_blockers = FALSE
    /\ largest_scc = {}
    /\ reps = <<>>
    /\ connector_paths = NoPaths
    /\ E = <<>>
    /\ start_node = 0
    /\ end_node = 0
    /\ sp_cache = NoCache
    /\ matching = {}
    /\ flow_result = NoCache
    /\ err = "none"
    /\ InitEnv

InitRpp ==
    /\ directed = FALSE
    /\ \E Ps \in StreetSets(NumNodes) : \E f \in Layouts(Ps) :
          /\ G_drive = DriveGraph(Ps, f)
          /\ G_service = UndirectedGraph(Ps, f)
          /\ R_built \in RequiredChoices(Ps)
    /\ pc = "step0"
    /\ InitCommon

\* --directed-service: the service graph is the driving graph
InitDrpp ==
    /\ directed = TRUE
    /\ \E Ps \in StreetSets(NumNodes) : \E f \in Layouts(Ps) :
          /\ G_drive = DriveGraph(Ps, f)
          /\ G_service = DriveGraph(Ps, f)
          /\ R_built \in RequiredChoices(DriveArcs(Ps, f))
    /\ pc = "main"
    /\ InitCommon

\* raise: the solver's locals are lost
Raise(e) ==
    /\ pc' = "error"
    /\ err' = e
    /\ E' = <<>>
    /\ reps' = <<>>
    /\ connector_paths' = NoPaths
    /\ sp_cache' = NoCache
    /\ matching' = {}
    /\ flow_result' = NoCache
    /\ start_node' = 0
    /\ end_node' = 0
    /\ UNCHANGED <<directed, G_drive, G_service, R_built, R, R_nodes,
                   drop_blockers, largest_scc>>

Empty == [ok |-> TRUE, E |-> <<>>]

\* ---- solve_rpp ---------------------------------------------------------
\* Step 0: connect required-edge components
RppConnect ==
    /\ pc = "step0"
    /\ UNCHANGED envVars
    /\ ~directed
    /\ \E r \in RepChoices(Components(R, R_nodes)) :
          IF ConnectorChoices(G_drive, r) = {}
          THEN Raise("DisconnectedRequiredComponents")
          ELSE /\ reps' = r
               /\ connector_paths' \in ConnectorChoices(G_drive, r)
               /\ pc' = "step1"
               /\ UNCHANGED <<directed, G_drive, G_service, R_built, R,
                              R_nodes, drop_blockers, largest_scc, E, start_node, end_node, sp_cache,
                              matching, flow_result, err>>

\* Step 1: required edges, then connector edges
\* the connector edges are tagged as required ones
BuildBase_ConnectorsRequired(S, Rq, paths, dir) ==
    AddPaths(AddArcs(Empty, S, SortedArcs(Rq), "required", dir),
             S, paths, "required", dir)

BuildBase(S, Rq, paths, dir) ==
    AddPaths(AddArcs(Empty, S, SortedArcs(Rq), "required", dir),
             S, paths, "connector", dir)

RppBuild ==
    /\ pc = "step1"
    /\ UNCHANGED envVars
    /\ ~directed
    /\ LET res == BuildBase(G_service, R, connector_paths, FALSE)
       IN IF ~res.ok THEN Raise("NoEdgeData")
          ELSE /\ E' = res.E
               /\ pc' = "snap"
               /\ UNCHANGED <<directed, G_drive, G_service, R_built, R,
                              R_nodes, drop_blockers, largest_scc, reps, connector_paths, start_node,
                              end_node, sp_cache, matching, flow_result, err>>

\* any component is taken, whatever its size
LargestComponents_Any(Es) == Components(EArcs(Es), ENodes(Es))

\* _select_component_nodes: max(components, key=len), the first component
\* of maximum size in the order the library lists them
LargestComponents(Es) ==
    LET cs == Components(EArcs(Es), ENodes(Es))
    IN {c \in cs : \A d \in cs : Cardinality(d) <= Cardinality(c)}

\* main with --start and --end: the two are snapped to nodes of the
\* largest component of the base graph (select_endpoint_nodes); the directed
\* solver is also called with endpoints that are any two nodes of the
\* driving graph
EndpointChoices ==
    IF directed
    THEN {p \in NodesOf(DOMAIN G_drive) \X NodesOf(DOMAIN G_drive) : p[1] # p[2]}
    ELSE UNION {{p \in c \X c : p[1] # p[2]} : c \in LargestComponents(E)}

SelectEndpoints ==
    /\ pc = "snap"
    /\ UNCHANGED envVars
    /\ \E p \in EndpointChoices :
          /\ start_node' = p[1]
          /\ end_node' = p[2]
    /\ pc' = "step2"
    /\ UNCHANGED <<directed, G_drive, G_service, R_built, R, R_nodes,
                   drop_blockers, largest_scc, reps,
                   connector_paths, E, sp_cache, matching, flow_result, err>>

\* main without --start: start_node = None, end_node = None
NoEndpoints ==
    /\ pc = "snap"
    /\ start_request = 0
    /\ UNCHANGED envVars
    /\ start_node' = 0
    /\ end_node' = 0
    /\ pc' = "step2"
    /\ UNCHANGED <<directed, G_drive, G_service, R_built, R, R_nodes,
                   drop_blockers, largest_scc, reps,
                   connector_paths, E, sp_cache, matching, flow_result, err>>

\* the endpoints are ignored: every tour is solved as a closed tour
OpenRoute_Never == FALSE

\* an open tour is asked for: a start and a different end
OpenRoute == start_node # 0 /\ end_node # 0 /\ start_node # end_node

\* the position of a node in E.nodes (insertion order); a node that is not
\* in E comes after those that are
NodePos(Es, n) ==
    LET at == {i \in DOMAIN Es : Es[i].u = n \/ Es[i].v = n}
    IN IF at = {} THEN 2 * (Len(Es) + 1) + n
       ELSE LET i == CHOOSE k \in at : \A j \in at : k <= j
            IN IF Es[i].u = n THEN 2 * i ELSE 2 * i + 1

\* itertools.combinations(odd, 2): the pairs (u, v), u before v in the list
Combinations(Es, T) ==
    {p \in T \X T : NodePos(Es, p[1]) < NodePos(Es, p[2])}

\* Step 4 of the undirected solver: the matching is solved on the
\* symmetric difference of the odd nodes and {s, t}
OpenTourOddSet(odd, s, t) == (odd \ {s, t}) \cup ({s, t} \ odd)

\* the edges of the auxiliary graph K: the pairs with a path either way
KEdges(G, Es, T) == {p \in Combinations(Es, T) : PathEitherWay(G, p[1], p[2]) # {}}

\* K.add_edge(u, v, weight=dist): the distance of the direction that was found
KWeight(G, p) ==
    LET fwd == ShortestPaths(G, p[1], p[2])
    IN IF fwd # {} THEN PathWeight(G, CHOOSE q \in fwd : TRUE)
       ELSE PathWeight(G, CHOOSE q \in ShortestPaths(G, p[2], p[1]) : TRUE)

\* the auxiliary graph K: [edges -> weight]
KGraph(G, Es, T) == [p \in KEdges(G, Es, T) |-> KWeight(G, p)]

RECURSIVE MatchingWeight(_, _)
MatchingWeight(K, M) ==
    IF M = {} THEN 0
    ELSE LET p == CHOOSE x \in M : TRUE
         IN K[p] + MatchingWeight(K, M \ {p})

IsMatching(M) ==
    \A a, b \in M : a # b => {a[1], a[2]} \cap {b[1], b[2]} = {}

\* nx.algorithms.matching.min_weight_matching(K): a matching of maximum
\* cardinality, of minimum weight among those
MinWeightMatchings(K) ==
    LET Ms == {M \in SUBSET DOMAIN K : IsMatching(M)}
        Full == {M \in Ms : \A N \in Ms : Cardinality(N) <= Cardinality(M)}
    IN {M \in Full : \A N \in Full : MatchingWeight(K, M) <= MatchingWeight(K, N)}

\* Step 2: fix odd degrees via min-weight matching
RppMatch ==
    /\ pc = "step2"
    /\ UNCHANGED envVars
    /\ ~directed
    /\ LET odd == IF OpenRoute
                  THEN OpenTourOddSet(OddNodes(E), start_node, end_node)
                  ELSE OddNodes(E)
           K == KGraph(G_drive, E, odd)
       IN IF Cardinality(odd) % 2 # 0 THEN Raise("OddCountNotEven")
          ELSE IF NodesOf(DOMAIN K) # odd THEN Raise("MatchingInfeasible")
          ELSE \E M \in MinWeightMatchings(K) :
                 \E paths \in PathChoices(G_drive, SortedArcs(M), TRUE) :
                    LET res == AddPaths([ok |-> TRUE, E |-> E], G_service,
                                        paths, "duplicate", FALSE)
                    IN IF ~res.ok THEN Raise("NoEdgeData")
                       ELSE /\ matching' = M
                            /\ sp_cache' = [i \in DOMAIN paths |->
                                               [pair |-> SortedArcs(M)[i],
                                                path |-> paths[i]]]
                            /\ E' = res.E
                            /\ pc' = "step3"
                            /\ UNCHANGED <<directed, G_drive, G_service,
                                           R_built, R, R_nodes,
                                           drop_blockers, largest_scc, reps,
                                           connector_paths, start_node,
                                           end_node, flow_result, err>>

\* nx.is_connected(E), for a graph with at least one node
IsConnected(Es) == Cardinality(Components(EArcs(Es), ENodes(Es))) = 1

\* Step 5 of the undirected solver, open tour: exactly s and t are odd
OpenTourOddOk(Es, s, t) == OddNodes(Es) = {s, t}

Return ==
    /\ pc' = "returned"
    /\ UNCHANGED <<directed, G_drive, G_service, R_built, R, R_nodes,
                   drop_blockers, largest_scc, reps,
                   connector_paths, E, start_node, end_node, sp_cache, matching,
                   flow_result, err>>

\* the degrees are not tested
RppFinalCheck_NoEulerianTest(Es) ==
    IF ENodes(Es) = {} THEN "NetworkXPointlessConcept"
    ELSE IF ~IsConnected(Es) THEN "NotConnected"
    ELSE "ok"

\* Step 3: final invariants. nx.is_connected raises
\* NetworkXPointlessConcept for the null graph
RppFinalCheck(Es) ==
    IF ENodes(Es) = {} THEN "NetworkXPointlessConcept"
    ELSE IF ~IsConnected(Es) THEN "NotConnected"
    ELSE IF OpenRoute /\ ~OpenTourOddOk(Es, start_node, end_node) THEN "NotEulerian"
    ELSE IF ~OpenRoute /\ OddNodes(Es) # {} THEN "NotEulerian"
    ELSE "ok"

RppCheck ==
    /\ pc = "step3"
    /\ UNCHANGED envVars
    /\ ~directed
    /\ IF RppFinalCheck(E) = "ok" THEN Return ELSE Raise(RppFinalCheck(E))

NextRpp == RppConnect \/ RppBuild \/ NoEndpoints \/ RppMatch \/ RppCheck

\* ---- main: the DRPP blocker analysis -----------------------------------
DriveNodes(G) == NodesOf(DOMAIN G)

\* compute_scc_index: max(scc_sizes, key=...) is the first SCC of maximum
\* size in the order the library lists the SCCs, so none of the others of
\* that size can be reached from it
LargestSccChoices(G) ==
    LET cs == SCCs(DOMAIN G, DriveNodes(G))
        big == {c \in cs : \A d \in cs : Cardinality(d) <= Cardinality(c)}
    IN {c \in big : \A d \in big \ {c} :
            \A n \in c : d \cap Reachable(DOMAIN G, n) = {}}

\* only the tail of the arc is looked at
BlockingEdges_TailOnly(Rq, L) == {a \in Rq : a[1] \notin L}

\* an arc blocks only when both endpoints lie outside the largest SCC
BlockingEdges_BothOutside(Rq, L) == {a \in Rq : a[1] \notin L /\ a[2] \notin L}

\* find_drpp_blocking_edges: scc_u != largest_scc_id or scc_v != largest_scc_id
BlockingEdges(Rq, L) == {a \in Rq : a[1] \notin L \/ a[2] \notin L}

\* isolates = [n for n in R.nodes if R.degree(n) == 0]; R.remove_nodes_from
RemoveIsolates(V, Rq) == {n \in V : n \in NodesOf(Rq)}

MainDropBlockers ==
    /\ pc = "main"
    /\ directed
    /\ \E drop \in BOOLEAN :
          /\ drop_blockers' = drop
          /\ IF (drop \/ blockers_gpx) /\ R_nodes # {}
                  /\ LargestSccChoices(G_drive) # {}
             THEN \E L \in LargestSccChoices(G_drive) :
                    LET blockers == BlockingEdges(R, L)
                    IN /\ largest_scc' = L
                       /\ files' = IF blockers_gpx /\ blockers # {}
                                   THEN files \cup {"blockers.gpx"} ELSE files
                       /\ R' = IF drop THEN R \ blockers ELSE R
                       /\ R_nodes' = IF drop /\ blockers # {}
                                     THEN RemoveIsolates(R_nodes, R \ blockers)
                                     ELSE R_nodes
             ELSE UNCHANGED <<largest_scc, R, R_nodes, files>>
    /\ UNCHANGED <<start_request, end_request, blockers_gpx, snapped, tour,
                   track, node_xy, geom, data, driveable, G_tagged>>
    /\ pc' = "preflight"
    /\ UNCHANGED <<directed, G_drive, G_service, R_built, reps,
                   connector_paths, E, start_node, end_node, sp_cache, matching,
                   flow_result, err>>

\* ---- solve_drpp --------------------------------------------------------
\* the SCCs of G_drive that hold a required node
RequiredSccs(G, V) ==
    {c \in SCCs(DOMAIN G, DriveNodes(G)) : c \cap V # {}}

\* two SCCs with required nodes are let through
PreflightCheck_Lenient(G, V) ==
    IF V \ DriveNodes(G) # {} THEN "RequiredNodesMissing"
    ELSE IF V # {} /\ Cardinality(RequiredSccs(G, V)) > 2 THEN "MultiSCCRequired"
    ELSE "ok"

\* required_nodes - set(G_drive.nodes), then len(required_sccs) > 1
PreflightCheck(G, V) ==
    IF V \ DriveNodes(G) # {} THEN "RequiredNodesMissing"
    ELSE IF V # {} /\ Cardinality(RequiredSccs(G, V)) > 1 THEN "MultiSCCRequired"
    ELSE "ok"

DrppPreflight ==
    /\ pc = "preflight"
    /\ UNCHANGED envVars
    /\ directed
    /\ IF PreflightCheck(G_drive, R_nodes) # "ok"
       THEN Raise(PreflightCheck(G_drive, R_nodes))
       ELSE /\ pc' = "step0"
            /\ UNCHANGED <<directed, G_drive, G_service, R_built, R, R_nodes,
                           drop_blockers, largest_scc, reps, connector_paths,
                           E, start_node, end_node, sp_cache, matching,
                           flow_result, err>>

\* Step 0: connect required-arc components
DrppConnect ==
    /\ pc = "step0"
    /\ UNCHANGED envVars
    /\ directed
    /\ \E r \in SccRepChoices(R, R_nodes) :
          IF ConnectorChoices(G_drive, r) = {}
          THEN Raise("DisconnectedRequiredComponents")
          ELSE /\ reps' = r
               /\ connector_paths' \in ConnectorChoices(G_drive, r)
               /\ pc' = "step1"
               /\ UNCHANGED <<directed, G_drive, G_service, R_built, R,
                              R_nodes, drop_blockers, largest_scc, E,
                              start_node, end_node, sp_cache, matching,
                              flow_result, err>>

\* Step 1: required arcs, then connector arcs
DrppBuild ==
    /\ pc = "step1"
    /\ UNCHANGED envVars
    /\ directed
    /\ LET res == BuildBase(G_service, R, connector_paths, TRUE)
       IN IF ~res.ok THEN Raise("NoEdgeData")
          ELSE /\ E' = res.E
               /\ pc' = "snap"
               /\ UNCHANGED <<directed, G_drive, G_service, R_built, R,
                              R_nodes, drop_blockers, largest_scc, reps,
                              connector_paths, start_node, end_node, sp_cache,
                              matching, flow_result, err>>

\* Step 4 of the directed solver: s gets one unit less, t one unit more
OpenTourDelta(Es, n, s, t) ==
    Delta(Es, n) - (IF n = s THEN 1 ELSE 0) + (IF n = t THEN 1 ELSE 0)

RECURSIVE SumFn(_, _)
SumFn(f, S) ==
    IF S = {} THEN 0
    ELSE LET x == CHOOSE y \in S : TRUE IN f[x] + SumFn(f, S \ {x})

\* nx.algorithms.flow.min_cost_flow(flow_graph): a flow on the arcs
\* d_minus x d_plus that meets every demand, of minimum cost
MinCostFlows(dm, dp, dem, dist) ==
    LET cap == SumFn(dem, dp)
        Fs == {f \in [dm \X dp -> 0..cap] :
                 /\ \A i \in dm : SumFn([j \in dp |-> f[<<i, j>>]], dp) = -dem[i]
                 /\ \A j \in dp : SumFn([i \in dm |-> f[<<i, j>>]], dm) = dem[j]}
        Cost(f) == SumFn([p \in dm \X dp |-> f[p] * dist[p]], dm \X dp)
    IN {f \in Fs : \A g \in Fs : Cost(f) <= Cost(g)}

\* if flow_result[i].get(j, 0) > 0: the path is materialized
FlowCopies(f) == IF f > 0 THEN 1 ELSE 0

RECURSIVE Repeated(_, _)
Repeated(path, n) == IF n = 0 THEN <<>> ELSE <<path>> \o Repeated(path, n - 1)

\* the paths to add as duplicates: the cached path of every pair, as many
\* times as the loop over flow_result adds it
RECURSIVE DuplicatePaths(_, _, _)
DuplicatePaths(pairs, paths, f) ==
    IF pairs = <<>> THEN <<>>
    ELSE Repeated(Head(paths), FlowCopies(f[Head(pairs)]))
            \o DuplicatePaths(Tail(pairs), Tail(paths), f)

\* Step 2: balance in/out degrees via min-cost flow
DrppBalance ==
    /\ pc = "step2"
    /\ UNCHANGED envVars
    /\ directed
    /\ LET V == IF OpenRoute THEN ENodes(E) \cup {start_node, end_node}
                ELSE ENodes(E)
           delta == [n \in V |-> IF OpenRoute
                                 THEN OpenTourDelta(E, n, start_node, end_node)
                                 ELSE Delta(E, n)]
           d_minus == {n \in V : delta[n] < 0}
           d_plus == {n \in V : delta[n] > 0}
       IN IF d_minus = {} /\ d_plus = {}
          THEN /\ pc' = "step3"
               /\ UNCHANGED <<directed, G_drive, G_service, R_built, R,
                              R_nodes, drop_blockers, largest_scc, reps,
                              connector_paths, E, start_node, end_node,
                              sp_cache, matching, flow_result, err>>
          ELSE IF \E p \in d_minus \X d_plus : ShortestPaths(G_drive, p[1], p[2]) = {}
          THEN Raise("FlowInfeasible")
          ELSE LET dist == [p \in d_minus \X d_plus |->
                              PathWeight(G_drive, CHOOSE q \in
                                  ShortestPaths(G_drive, p[1], p[2]) : TRUE)]
               IN \E f \in MinCostFlows(d_minus, d_plus, delta, dist) :
                    LET used == SortedArcs({p \in d_minus \X d_plus : f[p] > 0})
                    IN \E paths \in PathChoices(G_drive, used, FALSE) :
                         LET res == AddPaths([ok |-> TRUE, E |-> E], G_service,
                                             DuplicatePaths(used, paths, f),
                                             "duplicate", TRUE)
                         IN IF ~res.ok THEN Raise("NoEdgeData")
                            ELSE /\ flow_result' = f
                                 /\ sp_cache' = [i \in DOMAIN paths |->
                                                    [pair |-> used[i],
                                                     path |-> paths[i]]]
                                 /\ E' = res.E
                                 /\ pc' = "step3"
                                 /\ UNCHANGED <<directed, G_drive, G_service,
                                                R_built, R, R_nodes,
                                                drop_blockers, largest_scc, reps,
                                                connector_paths, start_node,
                                                end_node, matching, err>>

\* nx.is_strongly_connected(E), for a graph with at least one node
IsStronglyConnected(Es) == Cardinality(SCCs(EArcs(Es), ENodes(Es))) = 1

\* Step 5 of the directed solver, open tour: +1 at s, -1 at t, 0 elsewhere,
\* and E weakly connected
OpenTourBalanceOk(Es, s, t) ==
    /\ \A n \in ENodes(Es) \cup {s, t} :
          Delta(Es, n) = (IF n = s THEN 1 ELSE 0) - (IF n = t THEN 1 ELSE 0)
    /\ IsConnected(Es)

\* nx.is_eulerian(E), directed, for a graph with at least one node
IsEulerianDirected(Es) ==
    /\ \A n \in ENodes(Es) : InDeg(Es, n) = OutDeg(Es, n)
    /\ IsStronglyConnected(Es)

\* only connectivity is tested, not the degrees
DrppFinalCheck_NoBalanceTest(Es) ==
    IF ENodes(Es) = {} THEN "NetworkXPointlessConcept"
    ELSE IF ~IsStronglyConnected(Es) THEN "NotEulerian"
    ELSE "ok"

\* Step 3: final invariants. nx.is_eulerian calls nx.is_strongly_connected,
\* which raises NetworkXPointlessConcept for the null graph
DrppFinalCheck(Es) ==
    IF OpenRoute
    THEN (IF OpenTourBalanceOk(Es, start_node, end_node) THEN "ok" ELSE "NotEulerian")
    ELSE IF \E n \in ENodes(Es) : OutDeg(Es, n) # InDeg(Es, n) THEN "ImbalanceRemains"
    ELSE IF ENodes(Es) = {} THEN "NetworkXPointlessConcept"
    ELSE IF ~IsEulerianDirected(Es) THEN "NotEulerian"
    ELSE "ok"

DrppCheck ==
    /\ pc = "step3"
    /\ UNCHANGED envVars
    /\ directed
    /\ IF DrppFinalCheck(E) = "ok" THEN Return ELSE Raise(DrppFinalCheck(E))

NextDrpp ==
    \/ MainDropBlockers
    \/ DrppPreflight
    \/ DrppConnect
    \/ DrppBuild
    \/ NoEndpoints
    \/ DrppBalance
    \/ DrppCheck

SpecDrpp == InitDrpp /\ [][NextDrpp]_vars

\* ---- the solvers, closed tours ------------------------------------------
Init == InitRpp \/ InitDrpp

Next ==
    \/ RppConnect
    \/ RppBuild
    \/ RppMatch
    \/ RppCheck
    \/ MainDropBlockers
    \/ DrppPreflight
    \/ DrppConnect
    \/ DrppBuild
    \/ NoEndpoints
    \/ DrppBalance
    \/ DrppCheck

Spec == Init /\ [][Next]_vars

\* ---- the solvers, open tours --------------------------------------------
InitOpen ==
    /\ directed \in BOOLEAN
    /\ \E Ps \in StreetSets(NumNodesOpen) : \E f \in Layouts(Ps) :
          /\ G_drive = DriveGraph(Ps, f)
          /\ G_service = IF directed THEN DriveGraph(Ps, f)
                         ELSE UndirectedGraph(Ps, f)
          /\ R_built \in RequiredChoices(IF directed THEN DriveArcs(Ps, f) ELSE Ps)
    /\ pc = IF directed THEN "preflight" ELSE "step0"
    /\ InitCommon

NextOpen ==
    \/ RppConnect
    \/ RppBuild
    \/ RppMatch
    \/ RppCheck
    \/ DrppPreflight
    \/ DrppConnect
    \/ DrppBuild
    \/ SelectEndpoints
    \/ DrppBalance
    \/ DrppCheck

SpecOpen == InitOpen /\ [][NextOpen]_vars

SpecRpp == InitRpp /\ [][NextRpp]_vars

\* ---- the endpoint snapper (gpx_export.py) -------------------------------
\* the points that can be asked for: on the equator, at these longitudes
Targets == 1..NumNodes

\* haversine_m(lat1, lon1, lat2, lon2) for two points of the equator: the
\* arc between them (in units of radius_m * pi / 180 metres)
haversine_m(lon1, lon2) == IF lon1 >= lon2 THEN lon1 - lon2 ELSE lon2 - lon1

\* G.nodes.get(node) is None
Absent == 0

\* the node is in G without the attributes x / y
NoXY == -1

\* the node data of G: a node of G lies on the equator at the longitude of
\* its id; at most one node is not in G, or is in G without x / y
NodeDataChoices ==
    {[n \in Nodes |-> n]}
        \cup {[n \in Nodes |-> IF n = m THEN d ELSE n] :
                 m \in Nodes, d \in {Absent, NoXY}}

\* the graphs E the snapper is given: up to MaxStreets edges, self-loops
\* allowed, in any number of components
SnapGraphs ==
    {SortedArcs(A) : A \in {B \in SUBSET {p \in Nodes \X Nodes : p[1] <= p[2]} :
                               B # {} /\ Cardinality(B) <= MaxStreets}}

\* _select_nearest_node: "noxy" when a node of the component has no x / y,
\* "none" when no node of the component is in G, else the nodes the loop
\* can end with: those at the least distance
NearestNodes(component_nodes, xy, target) ==
    LET known == {n \in component_nodes : xy[n] # Absent}
    IN IF \E n \in known : xy[n] = NoXY THEN [raised |-> "noxy", nodes |-> {}]
       ELSE IF known = {} THEN [raised |-> "none", nodes |-> {}]
       ELSE [raised |-> "",
             nodes |-> {n \in known :
                          \A m \in known :
                              haversine_m(target, xy[n]) <= haversine_m(target, xy[m])}]

Snap(n, xy, target) ==
    [node |-> n, coords |-> xy[n], distance |-> haversine_m(target, xy[n]),
     strategy |-> "largest_component"]

SnapError(found) ==
    IF found.raised = "noxy" THEN "NodeCoordinatesMissing" ELSE "UnableToSnap"

\* select_start_node(E, G, start)
SelectStartNode ==
    /\ pc = "snap_call"
    /\ \E c \in LargestComponents(E) :
          LET found == NearestNodes(c, node_xy, start_request)
          IN IF found.raised # ""
             THEN /\ pc' = "error"
                  /\ err' = SnapError(found)
                  /\ UNCHANGED snapped
             ELSE /\ \E n \in found.nodes :
                        snapped' = Snap(n, node_xy, start_request)
                  /\ pc' = "snapped"
                  /\ UNCHANGED err
    /\ UNCHANGED <<directed, G_drive, G_service, R_built, R, R_nodes,
                   drop_blockers, largest_scc, reps, connector_paths, E,
                   start_node, end_node, sp_cache, matching, flow_result,
                   start_request, end_request, blockers_gpx, files, tour,
                   track, node_xy, geom, data, driveable, G_tagged>>

\* select_endpoint_nodes(E, G, start, end): both points are snapped to the
\* same component; end_node stays None without an end
SelectEndpointNodes ==
    /\ pc = "snap_call"
    /\ \E c \in LargestComponents(E) :
          LET found == NearestNodes(c, node_xy, start_request)
              found_end == IF end_request = 0 THEN [raised |-> "", nodes |-> {0}]
                           ELSE NearestNodes(c, node_xy, end_request)
          IN IF found.raised # ""
             THEN /\ pc' = "error"
                  /\ err' = SnapError(found)
                  /\ UNCHANGED <<snapped, start_node, end_node>>
             ELSE /\ \E n \in found.nodes : \E m \in found_end.nodes :
                        /\ snapped' = Snap(n, node_xy, start_request)
                        /\ start_node' = n
                        /\ end_node' = m
                  /\ pc' = "snapped"
                  /\ UNCHANGED err
    /\ UNCHANGED <<directed, G_drive, G_service, R_built, R, R_nodes,
                   drop_blockers, largest_scc, reps, connector_paths, E,
                   sp_cache, matching, flow_result,
                   start_request, end_request, blockers_gpx, files, tour,
                   track, node_xy, geom, data, driveable, G_tagged>>

InitSnap ==
    /\ directed \in BOOLEAN
    /\ G_drive = <<>>
    /\ G_service = <<>>
    /\ R_built = {}
    /\ R = {}
    /\ R_nodes = {}
    /\ drop_blockers = FALSE
    /\ largest_scc = {}
    /\ reps = <<>>
    /\ connector_paths = NoPaths
    /\ \E g \in SnapGraphs :
          E = [i \in DOMAIN g |-> Edge(g[i][1], g[i][2], "required", 1)]
    /\ start_node = 0
    /\ end_node = 0
    /\ sp_cache = NoCache
    /\ matching = {}
    /\ flow_result = NoCache
    /\ pc = "snap_call"
    /\ err = "none"
    /\ start_request \in Targets
    /\ end_request \in {0} \cup Targets
    /\ blockers_gpx = FALSE
    /\ snapped = NoSnap
    /\ files = {}
    /\ tour = <<>>
    /\ track = <<>>
    /\ node_xy \in NodeDataChoices
    /\ geom = <<>>
    /\ data = <<>>
    /\ driveable = "none"
    /\ G_tagged = <<>>

NextSnap == SelectStartNode \/ SelectEndpointNodes

SpecSnap == InitSnap /\ [][NextSnap]_vars

\* ---- the geometry exporter (gpx_export.py) ------------------------------
\* an end without a start is accepted
EndWithoutStart_Never(s, e) == FALSE

\* an end is given and no start (None is 0)
EndWithoutStart(s, e) == e # 0 /\ s = 0

\* the edges of E between the same nodes as the edge e
SameEnds(e, f) ==
    IF directed THEN e.u = f.u /\ e.v = f.v ELSE {e.u, e.v} = {f.u, f.v}

\* parallel edges are not told apart
Key_Zero(Es, i) == 0

\* the key of the edge at position i of E: networkx numbers the parallel
\* edges 0, 1, ... in the order they were added
Key(Es, i) == Cardinality({j \in 1..(i - 1) : SameEnds(Es[j], Es[i])})

\* E.get_edge_data(u, v, k): the position of the edge (u, v, k)
EdgeAt(Es, u, v, k) ==
    CHOOSE i \in DOMAIN Es :
        /\ SameEnds(Es[i], [u |-> u, v |-> v])
        /\ Key(Es, i) = k

\* the edges that can be taken from the node at
Usable(Es, used, at) ==
    {i \in DOMAIN Es \ used :
        Es[i].u = at \/ (~directed /\ Es[i].v = at)}

\* the walks from the node at that take every edge not yet used once, as
\* triples (u, v, key) in travel order
RECURSIVE TrailsFrom(_, _, _, _)
TrailsFrom(Es, used, at, acc) ==
    IF used = DOMAIN Es THEN {acc}
    ELSE UNION {LET to == IF Es[i].u = at THEN Es[i].v ELSE Es[i].u
                IN TrailsFrom(Es, used \cup {i}, to,
                              Append(acc, <<at, to, Key(Es, i)>>)) :
                  i \in Usable(Es, used, at)}

\* nx.is_eulerian(E), for a graph with at least one node
IsEulerian(Es) ==
    IF directed THEN IsEulerianDirected(Es)
    ELSE OddNodes(Es) = {} /\ IsConnected(Es)

\* the source defaults to arbitrary_element(E): the first node of E
EulerSource(Es, s) == IF s # 0 THEN s ELSE Es[1].u

\* lines 22-28: nx.eulerian_circuit with no start or with start = end (or no
\* end), nx.eulerian_path(E, source=start_node) for an open route; raised
\* is set when the library raises
ExtractTour(Es, s, open_route) ==
    IF ENodes(Es) = {} THEN [raised |-> "NetworkXPointlessConcept", tours |-> {}]
    ELSE IF s # 0 /\ s \notin ENodes(Es)
    THEN [raised |-> "SourceNotInGraph", tours |-> {}]
    ELSE IF ~open_route /\ ~IsEulerian(Es)
    THEN [raised |-> "NotEulerian", tours |-> {}]
    ELSE IF TrailsFrom(Es, {}, EulerSource(Es, s), <<>>) = {}
    THEN [raised |-> "NoEulerianPath", tours |-> {}]
    ELSE [raised |-> "", tours |-> TrailsFrom(Es, {}, EulerSource(Es, s), <<>>)]

\* a node of G as a point (x, y): the nodes lie on the equator
NodePoint(n) == <<node_xy[n], 0>>

dist2(a, b) == (a[1] - b[1]) * (a[1] - b[1]) + (a[2] - b[2]) * (a[2] - b[2])

\* every polyline is stored the other way round
Oriented_Reversed(coords, u, v) == Reverse(coords)

\* lines 53-62: the polyline is reversed unless its start is not farther
\* from u than from v and its end not farther from v than from u
Oriented(coords, u, v) ==
    LET du_start == dist2(coords[1], NodePoint(u))
        dv_start == dist2(coords[1], NodePoint(v))
        du_end == dist2(coords[Len(coords)], NodePoint(u))
        dv_end == dist2(coords[Len(coords)], NodePoint(v))
    IN IF ~(du_start <= dv_start /\ dv_end <= du_end) THEN Reverse(coords)
       ELSE coords

\* data.get("geometry") of the edge of E at position i: the polyline that
\* add_edge_with_geometry copied from the edge of G
Geometry(Es, i) ==
    geom[IF directed THEN <<Es[i].u, Es[i].v>> ELSE Canon(<<Es[i].u, Es[i].v>>)]

\* lines 39-62: the coordinates emitted for the step (u, v, k) of the tour
StepCoords(Es, st) ==
    LET g == Geometry(Es, EdgeAt(Es, st[1], st[2], st[3]))
    IN IF g = <<>> THEN <<NodePoint(st[1]), NodePoint(st[2])>>
       ELSE Oriented(g, st[1], st[2])

\* lines 64-70: the points (y, x), a point equal to the last one skipped
RECURSIVE AppendPoints(_, _)
AppendPoints(points, coords) ==
    IF coords = <<>> THEN points
    ELSE LET pt == <<Head(coords)[2], Head(coords)[1]>>
         IN AppendPoints(IF points # <<>> /\ points[Len(points)] = pt
                         THEN points ELSE Append(points, pt),
                         Tail(coords))

RECURSIVE TrackOf(_, _, _)
TrackOf(Es, t, points) ==
    IF t = <<>> THEN points
    ELSE TrackOf(Es, Tail(t), AppendPoints(points, StepCoords(Es, Head(t))))

\* the file is opened before the tour is extracted
FilesAfterExport_OpenedFirst(fs, done) == fs \cup {"rpp_route.gpx"}

\* lines 72-73: the file is opened and written once the whole track is built
FilesAfterExport(fs, done) == IF done THEN fs \cup {"rpp_route.gpx"} ELSE fs

\* export_gpx(E, G, "rpp_route.gpx", start_node=..., end_node=...)
ExportGpx ==
    /\ pc = "returned"
    /\ IF EndWithoutStart(start_node, end_node)
       THEN /\ pc' = "error"
            /\ err' = "end_node requires start_node"
            /\ files' = FilesAfterExport(files, FALSE)
            /\ UNCHANGED <<tour, track>>
       ELSE LET open_route == end_node # 0 /\ start_node # 0 /\ end_node # start_node
                found == ExtractTour(E, start_node, open_route)
            IN IF found.raised # ""
               THEN /\ pc' = "error"
                    /\ err' = found.raised
                    /\ files' = FilesAfterExport(files, FALSE)
                    /\ UNCHANGED <<tour, track>>
               ELSE /\ \E t \in found.tours :
                          /\ tour' = t
                          /\ track' = TrackOf(E, t, <<>>)
                    /\ files' = FilesAfterExport(files, TRUE)
                    /\ pc' = "exported"
                    /\ UNCHANGED err
    /\ UNCHANGED <<directed, G_drive, G_service, R_built, R, R_nodes,
                   drop_blockers, largest_scc, reps, connector_paths, E,
                   start_node, end_node, sp_cache, matching, flow_result,
                   start_request, end_request, blockers_gpx, snapped,
                   node_xy, geom, data, driveable, G_tagged>>

\* the graphs E the exporter is given: up to MaxExportEdges edges, parallel
\* ones included, on the nodes 1..NumNodesOpen
ExportNodes == 1..NumNodesOpen

ExportArcs(dir) ==
    {p \in ExportNodes \X ExportNodes : IF dir THEN p[1] # p[2] ELSE p[1] < p[2]}

ExportGraphs(dir) ==
    UNION {[1..n -> ExportArcs(dir)] : n \in 1..MaxExportEdges}

\* the polylines an edge can carry: none, or two points at node longitudes
Polylines ==
    {<<>>} \cup {<<<<x, 0>>, <<y, 0>>>> : x \in ExportNodes, y \in ExportNodes}

InitExport ==
    /\ directed \in BOOLEAN
    /\ G_drive = <<>>
    /\ G_service = <<>>
    /\ R_built = {}
    /\ R = {}
    /\ R_nodes = {}
    /\ drop_blockers = FALSE
    /\ largest_scc = {}
    /\ reps = <<>>
    /\ connector_paths = NoPaths
    /\ \E g \in ExportGraphs(directed) :
          /\ E = [i \in DOMAIN g |-> Edge(g[i][1], g[i][2], "required", 1)]
          /\ geom \in [{g[i] : i \in DOMAIN g} -> Polylines]
    /\ start_node \in {0} \cup ExportNodes
    /\ end_node \in {0} \cup ExportNodes
    /\ sp_cache = NoCache
    /\ matching = {}
    /\ flow_result = NoCache
    /\ pc = "returned"
    /\ err = "none"
    /\ start_request = 0
    /\ end_request = 0
    /\ blockers_gpx = FALSE
    /\ snapped = NoSnap
    /\ files = {}
    /\ tour = <<>>
    /\ track = <<>>
    /\ node_xy = [n \in Nodes |-> n]
    /\ data = <<>>
    /\ driveable = "none"
    /\ G_tagged = <<>>

NextExport == ExportGpx

SpecExport == InitExport /\ [][NextExport]_vars

\* ---- main (main.py) ------------------------------------------------------
\* a --start / --end value that _parse_point rejects
Malformed == -1

\* the values of --start and --end: absent (0), malformed, or a point at
\* the longitude of a node
PointArgs == {0, Malformed} \cup (1..NumNodesOpen)

\* main could not go on: nothing is loaded or solved after the error
MainRaise(e) ==
    /\ pc' = "error"
    /\ err' = e
    /\ UNCHANGED <<directed, G_drive, G_service, R_built, R, R_nodes,
                   drop_blockers, largest_scc, reps, connector_paths, E,
                   start_node, end_node, sp_cache, matching, flow_result,
                   snapped, files, tour, track, node_xy, geom, data,
                   driveable, G_tagged>>

\* lines 37-80: the arguments are parsed, the points first
MainParseArgs ==
    /\ pc = "args"
    /\ \E s \in PointArgs : \E e \in PointArgs : \E b \in BOOLEAN :
          IF s = Malformed
          THEN MainRaise("--start must be provided as 'lat,lon'.")
               /\ UNCHANGED <<start_request, end_request, blockers_gpx>>
          ELSE IF e = Malformed
          THEN /\ MainRaise("--end must be provided as 'lat,lon'.")
               /\ start_request' = s
               /\ UNCHANGED <<end_request, blockers_gpx>>
          ELSE IF EndWithoutStart(s, e)
          THEN /\ MainRaise("--end requires --start.")
               /\ start_request' = s
               /\ end_request' = e
               /\ UNCHANGED blockers_gpx
          ELSE /\ start_request' = s
               /\ end_request' = e
               /\ blockers_gpx' = b
               /\ pc' = "load"
               /\ UNCHANGED <<directed, G_drive, G_service, R_built, R,
                              R_nodes, drop_blockers, largest_scc, reps,
                              connector_paths, E, start_node, end_node,
                              sp_cache, matching, flow_result, err, snapped,
                              files, tour, track, node_xy, geom, data,
                              driveable, G_tagged>>

\* the polylines of the loaded streets: each is stored once, from the lower
\* to the higher node, whichever way the arc runs
StreetGeometry(arcs) ==
    [a \in arcs |-> <<<<Canon(a)[1], 0>>, <<Canon(a)[2], 0>>>>]

\* the street networks main is run on
MainStreetSets ==
    {Ps \in StreetSets(NumNodesOpen) : Cardinality(Ps) <= MaxMainStreets}

\* lines 82-88 and 160: load_graphs and build_required_graph_*; the file
\* may be unreadable
MainLoadGraphs ==
    /\ pc = "load"
    /\ \/ /\ MainRaise("OSError")
          /\ UNCHANGED <<start_request, end_request, blockers_gpx>>
       \/ /\ \E Ps \in MainStreetSets : \E f \in Layouts(Ps) :
               \E Q \in RequiredChoices(IF directed THEN DriveArcs(Ps, f) ELSE Ps) :
                  /\ G_drive' = DriveGraph(Ps, f)
                  /\ G_service' = IF directed THEN DriveGraph(Ps, f)
                                  ELSE UndirectedGraph(Ps, f)
                  /\ R_built' = Q
                  /\ R' = Q
                  /\ R_nodes' = NodesOf(Q)
                  /\ geom' = StreetGeometry(
                                 IF directed THEN DriveArcs(Ps, f) ELSE Ps)
          /\ node_xy' = [n \in Nodes |-> n]
          /\ pc' = IF directed THEN "main" ELSE "step0"
          /\ UNCHANGED <<directed, drop_blockers, largest_scc, reps,
                         connector_paths, E, start_node, end_node, sp_cache,
                         matching, flow_result, err, start_request,
                         end_request, blockers_gpx, snapped, files, tour,
                         track, data, driveable, G_tagged>>

\* lines 119-145 and 162-188: with --start the points are snapped to the
\* largest component of the base graph
MainSelectEndpoints ==
    /\ pc = "snap"
    /\ start_request # 0
    /\ IF ENodes(E) = {}
       THEN /\ pc' = "error"
            /\ err' = "Cannot select start node from empty graph."
            /\ UNCHANGED <<snapped, start_node, end_node>>
       ELSE \E c \in LargestComponents(E) :
          LET found == NearestNodes(c, node_xy, start_request)
              found_end == IF end_request = 0 THEN [raised |-> "", nodes |-> {0}]
                           ELSE NearestNodes(c, node_xy, end_request)
          IN IF found.raised # ""
             THEN /\ pc' = "error"
                  /\ err' = SnapError(found)
                  /\ UNCHANGED <<snapped, start_node, end_node>>
             ELSE /\ \E n \in found.nodes : \E m \in found_end.nodes :
                        /\ snapped' = Snap(n, node_xy, start_request)
                        /\ start_node' = n
                        /\ end_node' = m
                  /\ pc' = "step2"
                  /\ UNCHANGED err
    /\ UNCHANGED <<directed, G_drive, G_service, R_built, R, R_nodes,
                   drop_blockers, largest_scc, reps, connector_paths, E,
                   sp_cache, matching, flow_result,
                   start_request, end_request, blockers_gpx, files, tour,
                   track, node_xy, geom, data, driveable, G_tagged>>

InitMain ==
    /\ directed \in BOOLEAN
    /\ G_drive = <<>>
    /\ G_service = <<>>
    /\ R_built = {}
    /\ pc = "args"
    /\ InitCommon

NextMain ==
    \/ MainParseArgs
    \/ MainLoadGraphs
    \/ MainDropBlockers
    \/ DrppPreflight
    \/ DrppConnect
    \/ DrppBuild
    \/ RppConnect
    \/ RppBuild
    \/ NoEndpoints
    \/ MainSelectEndpoints
    \/ RppMatch
    \/ DrppBalance
    \/ RppCheck
    \/ DrppCheck
    \/ ExportGpx

SpecMain == InitMain /\ [][NextMain]_vars

\* main, and export_gpx called on its own
SpecCalls == (InitMain \/ InitExport) /\ [][NextMain]_vars

\* ---- the edge filter (filters.py) ----------------------------------------
EXCLUDED_HIGHWAYS ==
    {"footway", "pedestrian", "steps", "path", "corridor", "cycleway"}

EXCLUDED_HIGHWAY_TOKENS ==
    {"footway", "pedestrian", "steps", "path", "corridor", "cycleway"}

\* A tag string is its ';'-separated pieces; a piece is a lower-case word,
\* written in upper case or not, with blanks around it or not.  "" has no
\* piece.
Piece(w, upper, pad) == [word |-> w, upper |-> upper, pad |-> pad]

Pieces(words) == {Piece(w, u, b) : w \in words, u \in BOOLEAN, b \in BOOLEAN}

None == [kind |-> "none", s |-> <<>>, l |-> <<>>]
Str(ps) == [kind |-> "str", s |-> ps, l |-> <<>>]
List(ss) == [kind |-> "list", s |-> <<>>, l |-> ss]

\* s.split(";") with every piece stripped: the words as written
StrippedTokens(ps) == {[word |-> ps[i].word, upper |-> ps[i].upper] : i \in DOMAIN ps}

\* s == w for a lower-case literal w
IsLiteral(ps, w) ==
    Len(ps) = 1 /\ ps[1].word = w /\ ~ps[1].upper /\ ~ps[1].pad

\* str(v).strip().lower() == w for a lower-case literal w; the text of
\* None or of a list is not w
StripLowerIs(v, w) ==
    v.kind = "str" /\ Len(v.s) = 1 /\ v.s[1].word = w

\* _as_list
as_list(v) ==
    IF v.kind = "none" THEN <<>>
    ELSE IF v.kind = "list" THEN v.l
    ELSE <<v.s>>

\* only the whole value is compared
highway_has_excluded_token_WholeValue(highway_value) ==
    \E i \in DOMAIN as_list(highway_value) :
        \E w \in EXCLUDED_HIGHWAYS : IsLiteral(as_list(highway_value)[i], w)

\* _highway_has_excluded_token
highway_has_excluded_token(highway_value) ==
    LET vals == as_list(highway_value)
    IN \E i \in DOMAIN vals :
          \/ \E t \in StrippedTokens(vals[i]) :
                ~t.upper /\ t.word \in EXCLUDED_HIGHWAY_TOKENS
          \/ \E w \in EXCLUDED_HIGHWAYS : IsLiteral(vals[i], w)

\* is_driveable_edge(data); data.get(k) of a missing key is None, and
\* data.get(k, "") is ""
is_driveable_edge(d) ==
    IF highway_has_excluded_token(d.highway) THEN FALSE
    ELSE IF StripLowerIs(d.service, "parking_aisle") THEN FALSE
    ELSE IF \E k \in {"motor_vehicle", "vehicle"} :
              d[k].kind # "none"
              /\ \E w \in {"no", "private"} : StripLowerIs(d[k], w)
    THEN FALSE
    ELSE IF \E w \in {"private", "no"} : StripLowerIs(d.access, w) THEN FALSE
    ELSE TRUE

TagKeys == {"highway", "service", "motor_vehicle", "vehicle", "access"}

\* the values a tag can take: a string of up to MaxTokens pieces, or a
\* list of plain strings
TagStrings(words) ==
    UNION {[1..n -> Pieces(words)] : n \in 0..MaxTokens}

PlainStrings(words) ==
    {<<Piece(w, FALSE, FALSE)>> : w \in words}
        \cup {<<Piece(w, FALSE, FALSE), Piece(x, FALSE, FALSE)>> :
                 w \in words, x \in words}

HighwayValues ==
    {Str(ps) : ps \in TagStrings({"footway", "residential"})}
        \cup {List(ss) : ss \in UNION {[1..n -> PlainStrings({"cycleway", "tertiary"})] :
                                        n \in 0..2}}

OtherValues(k) ==
    LET words == IF k = "service" THEN {"parking_aisle", "driveway"}
                 ELSE {"no", "private", "yes"}
    IN {Str(<<p>>) : p \in Pieces(words)}
          \cup {Str(<<>>), List(<<<<Piece("no", FALSE, FALSE)>>>>),
                 List(<<<<Piece("parking_aisle", FALSE, FALSE)>>>>)}

TagValues(k) == IF k = "highway" THEN HighwayValues ELSE OtherValues(k)

\* the edge data: at most MaxTags of the tags are present
PresentValues(K, k) == IF k \in K THEN TagValues(k) ELSE {None}

EdgeData ==
    UNION {[highway : PresentValues(K, "highway"),
            service : PresentValues(K, "service"),
            motor_vehicle : PresentValues(K, "motor_vehicle"),
            vehicle : PresentValues(K, "vehicle"),
            access : PresentValues(K, "access")] :
             K \in {L \in SUBSET TagKeys : Cardinality(L) <= MaxTags}}

IsDriveableEdge ==
    /\ pc = "filter_call"
    /\ driveable' = IF is_driveable_edge(data) THEN "true" ELSE "false"
    /\ pc' = "filtered"
    /\ UNCHANGED <<directed, G_drive, G_service, R_built, R, R_nodes,
                   drop_blockers, largest_scc, reps, connector_paths, E,
                   start_node, end_node, sp_cache, matching, flow_result, err,
                   start_request, end_request, blockers_gpx, snapped, files,
                   tour, track, node_xy, geom, data, G_tagged>>

InitFilter ==
    /\ directed = FALSE
    /\ G_drive = <<>>
    /\ G_service = <<>>
    /\ R_built = {}
    /\ pc = "filter_call"
    /\ R = {}
    /\ R_nodes = {}
    /\ drop_blockers = FALSE
    /\ largest_scc = {}
    /\ reps = <<>>
    /\ connector_paths = NoPaths
    /\ E = <<>>
    /\ start_node = 0
    /\ end_node = 0
    /\ sp_cache = NoCache
    /\ matching = {}
    /\ flow_result = NoCache
    /\ err = "none"
    /\ start_request = 0
    /\ end_request = 0
    /\ blockers_gpx = FALSE
    /\ snapped = NoSnap
    /\ files = {}
    /\ tour = <<>>
    /\ track = <<>>
    /\ node_xy = <<>>
    /\ geom = <<>>
    /\ data \in EdgeData
    /\ driveable = "none"
    /\ G_tagged = <<>>

NextFilter == IsDriveableEdge

SpecFilter == InitFilter /\ [][NextFilter]_vars

\* ---- required-edge extraction (required_edges.py) ------------------------
REQUIRED_HIGHWAYS == {"residential", "living_street", "tertiary", "unclassified"}

Plain(w) == <<Piece(w, FALSE, FALSE)>>

NoTags ==
    [highway |-> None, service |-> None, motor_vehicle |-> None,
     vehicle |-> None, access |-> None]

Tagged(hw) == [NoTags EXCEPT !.highway = hw]

\* the edge data of the service graph: a required class, another class, an
\* excluded class, list values, several classes in one string, no class,
\* and a required class with access = no
ServiceData ==
    {Tagged(Str(Plain(w))) : w \in {"residential", "tertiary", "secondary", "footway"}}
        \cup {Tagged(List(<<Plain("residential"), Plain("secondary")>>)),
               Tagged(List(<<Plain("secondary"), Plain("residential")>>)),
               Tagged(List(<<Plain("residential"), Plain("footway")>>)),
               Tagged(List(<<>>)),
               Tagged(Str(<<Piece("residential", FALSE, FALSE),
                            Piece("tertiary", FALSE, FALSE)>>)),
               Tagged(Str(<<Piece("residential", TRUE, FALSE)>>)),
               NoTags,
               [Tagged(Str(Plain("residential"))) EXCEPT !.access = Str(Plain("no"))]}

\* the edges of the service graph, in the order G.edges lists them; an
\* edge can run from a node to itself
TaggedEdges ==
    [u : ExportNodes, v : ExportNodes, data : ServiceData]

ServiceGraphs == UNION {[1..n -> TaggedEdges] : n \in 0..MaxTaggedEdges}

\* hw = data.get("highway"); hw[0] of an empty list raises IndexError
RaisesIndexError(d) ==
    is_driveable_edge(d) /\ d.highway.kind = "list" /\ d.highway.l = <<>>

\* the filter is not applied
IsRequiredEdge_Unfiltered(d) ==
    LET hw == IF d.highway.kind = "list" THEN Str(d.highway.l[1]) ELSE d.highway
    IN hw.kind = "str" /\ \E w \in REQUIRED_HIGHWAYS : IsLiteral(hw.s, w)

\* lines 15-21 / 30-36: the edge passes the filter and hw, the first element
\* of a list, is in REQUIRED_HIGHWAYS
IsRequiredEdge(d) ==
    /\ is_driveable_edge(d)
    /\ LET hw == IF d.highway.kind = "list" THEN Str(d.highway.l[1]) ELSE d.highway
       IN hw.kind = "str" /\ \E w \in REQUIRED_HIGHWAYS : IsLiteral(hw.s, w)

\* R.add_edge(u, v): nx.DiGraph keeps one arc per ordered pair, nx.Graph one
\* edge per unordered pair
RequiredArc(e) == IF directed THEN <<e.u, e.v>> ELSE Canon(<<e.u, e.v>>)

\* build_required_graph_undirected / build_required_graph_directed
BuildRequiredGraph ==
    /\ pc = "required_call"
    /\ IF \E i \in DOMAIN G_tagged : RaisesIndexError(G_tagged[i].data)
       THEN /\ pc' = "error"
            /\ err' = "IndexError"
            /\ UNCHANGED R_built
       ELSE /\ R_built' = {RequiredArc(G_tagged[i]) :
                             i \in {j \in DOMAIN G_tagged : IsRequiredEdge(G_tagged[j].data)}}
            /\ pc' = "required_built"
            /\ UNCHANGED err
    /\ UNCHANGED <<directed, G_drive, G_service, R, R_nodes,
                   drop_blockers, largest_scc, reps, connector_paths, E,
                   start_node, end_node, sp_cache, matching, flow_result,
                   start_request, end_request, blockers_gpx, snapped, files,
                   tour, track, node_xy, geom, data, driveable, G_tagged>>

InitRequired ==
    /\ directed \in BOOLEAN
    /\ G_drive = <<>>
    /\ G_service = <<>>
    /\ R_built = {}
    /\ pc = "required_call"
    /\ R = {}
    /\ R_nodes = {}
    /\ drop_blockers = FALSE
    /\ largest_scc = {}
    /\ reps = <<>>
    /\ connector_paths = NoPaths
    /\ E = <<>>
    /\ start_node = 0
    /\ end_node = 0
    /\ sp_cache = NoCache
    /\ matching = {}
    /\ flow_result = NoCache
    /\ err = "none"
    /\ start_request = 0
    /\ end_request = 0
    /\ blockers_gpx = FALSE
    /\ snapped = NoSnap
    /\ files = {}
    /\ tour = <<>>
    /\ track = <<>>
    /\ node_xy = <<>>
    /\ geom = <<>>
    /\ data = <<>>
    /\ driveable = "none"
    /\ G_tagged \in ServiceGraphs

NextRequired == BuildRequiredGraph

SpecRequired == InitRequired /\ [][NextRequired]_vars

\* ---- the claims ---------------------------------------------------------
EndpointsGiven == start_node # 0 /\ end_node # 0 /\ start_node # end_node

ComponentCount(Es) == Cardinality(Components(EArcs(Es), ENodes(Es)))

KindCount(Es, a, kind) ==
    Cardinality({i \in DOMAIN Es : <<Es[i].u, Es[i].v>> = a /\ Es[i].kind = kind})

\* C1: solve_rpp without endpoints never returns an E that has a node of odd
\* degree or more than one component
C1_UndirectedClosedTour ==
    (~directed /\ pc = "returned" /\ ~EndpointsGiven) =>
        /\ \A n \in ENodes(E) : Degree(E, n) % 2 = 0
        /\ ComponentCount(E) <= 1

\* a closed undirected tour was returned that needed connectors and duplicates
C1_Witness ==
    /\ ~directed /\ pc = "returned" /\ ~EndpointsGiven
    /\ \E i \in DOMAIN E : E[i].kind = "connector"
    /\ \E i \in DOMAIN E : E[i].kind = "duplicate"

\* C2: solve_drpp without endpoints never returns an E in which a node has
\* different in- and out-degree, or that is not weakly connected
C2_DirectedClosedTour ==
    (directed /\ pc = "returned" /\ ~EndpointsGiven) =>
        /\ \A n \in ENodes(E) : OutDeg(E, n) = InDeg(E, n)
        /\ ComponentCount(E) <= 1

\* a closed directed tour was returned that needed connectors and duplicates
C2_Witness ==
    /\ directed /\ pc = "returned" /\ ~EndpointsGiven
    /\ \E i \in DOMAIN E : E[i].kind = "connector"
    /\ \E i \in DOMAIN E : E[i].kind = "duplicate"

\* C3: in every returned E each edge of R is there exactly once with
\* kind=required, and every edge of kind=required is an edge of R
C3_RequiredCoverage ==
    (pc = "returned") =>
        /\ \A a \in R : KindCount(E, a, "required") = 1
        /\ \A i \in DOMAIN E :
              E[i].kind = "required" => <<E[i].u, E[i].v>> \in R

\* a returned E holds a required edge and a parallel copy of another kind
C3_Witness ==
    /\ pc = "returned"
    /\ \E i, j \in DOMAIN E :
          /\ E[i].kind = "required"
          /\ E[j].kind \in {"connector", "duplicate"}
          /\ {E[i].u, E[i].v} = {E[j].u, E[j].v}

\* C4: in every E solve_drpp returns, with the service graph the driving
\* graph, every connector or duplicate arc (u, v) is an arc u -> v of D
C4_DirectedDrivability ==
    (directed /\ pc = "returned" /\ G_service = G_drive) =>
        \A i \in DOMAIN E :
            E[i].kind \in {"connector", "duplicate"} =>
                <<E[i].u, E[i].v>> \in DOMAIN G_drive

\* a directed E was returned with a connector arc along a one-way street
C4_Witness ==
    /\ directed /\ pc = "returned" /\ G_service = G_drive
    /\ \E i \in DOMAIN E :
          /\ E[i].kind \in {"connector", "duplicate"}
          /\ <<E[i].v, E[i].u>> \notin DOMAIN G_drive

\* the imbalance of n before the duplicates were added
BaseDelta(Es, n) ==
    Cardinality({i \in DOMAIN Es : Es[i].u = n /\ Es[i].kind # "duplicate"})
        - Cardinality({i \in DOMAIN Es : Es[i].v = n /\ Es[i].kind # "duplicate"})

\* how often the arc a lies on the cached path c
OnPath(c, a) == Cardinality({k \in DOMAIN PathArcs(c.path) : PathArcs(c.path)[k] = a})

\* the copies of the arc a that the flow asks for: every cached path it
\* lies on, times the flow of that path's pair
FlowDemand(a) ==
    SeqSum([i \in DOMAIN sp_cache |->
               flow_result[sp_cache[i].pair] * OnPath(sp_cache[i], a)])

\* C5: once solve_drpp has materialized a flow, every arc is in E as a
\* duplicate as often as the flow sends units over the cached paths through
\* it, and every node whose imbalance was 2 or more is balanced
C5_FlowMultiplicity ==
    (directed /\ pc = "step3" /\ ~EndpointsGiven /\ flow_result # NoCache) =>
        /\ \A a \in Nodes \X Nodes : KindCount(E, a, "duplicate") = FlowDemand(a)
        /\ \A n \in ENodes(E) :
              (BaseDelta(E, n) >= 2 \/ BaseDelta(E, n) <= -2) => Delta(E, n) = 0

\* C6: solve_rpp with two different endpoints s and t of the base graph
\* only returns a connected E in which exactly s and t have odd degree
C6_UndirectedOpenTour ==
    (~directed /\ pc = "returned" /\ EndpointsGiven) =>
        /\ ComponentCount(E) = 1
        /\ OddNodes(E) = {start_node, end_node}

\* an open undirected tour was returned whose endpoints were even in the
\* base graph, so that the matching had to make them odd
C6_Witness ==
    /\ ~directed /\ pc = "returned" /\ EndpointsGiven
    /\ matching # {}
    /\ \E i \in DOMAIN E : E[i].kind = "duplicate"
    /\ \E i \in DOMAIN E : E[i].kind = "required" /\ E[i].u # start_node

\* C7: solve_drpp with two different endpoints s and t only returns a weakly
\* connected E with out-degree minus in-degree +1 at s, -1 at t and 0 at
\* every other node
C7_DirectedOpenTour ==
    (directed /\ pc = "returned" /\ EndpointsGiven) =>
        /\ ComponentCount(E) = 1
        /\ \A n \in ENodes(E) \cup {start_node, end_node} :
              Delta(E, n) = (IF n = start_node THEN 1 ELSE 0)
                            - (IF n = end_node THEN 1 ELSE 0)

\* an open directed tour was returned that needed duplicates from the flow
C7_Witness ==
    /\ directed /\ pc = "returned" /\ EndpointsGiven
    /\ flow_result # NoCache
    /\ \E i \in DOMAIN E : E[i].kind = "duplicate"

\* the nodes a and b of D can reach each other
SameScc(a, b) ==
    /\ b \in Reachable(DOMAIN G_drive, a)
    /\ a \in Reachable(DOMAIN G_drive, b)

\* C8: once solve_drpp is past its reachability check, it has failed with
\* MultiSCCRequired, and returns no E, exactly when two nodes of R lie in
\* different SCCs of D
C8_StrictMode ==
    (directed /\ pc \notin {"main", "preflight"}) =>
        ((\E a, b \in R_nodes : ~SameScc(a, b))
            <=> (pc = "error" /\ err = "MultiSCCRequired" /\ E = <<>>))

\* solve_drpp failed with MultiSCCRequired on a required arc between two SCCs
C8_Witness ==
    /\ directed /\ pc = "error" /\ err = "MultiSCCRequired"
    /\ \E a \in R : ~SameScc(a[1], a[2])

\* C9: from the end of main's drop step on, in drop-blockers mode, R holds
\* exactly the arcs of the original R with both endpoints in the largest SCC
\* of D and has no node without an arc; the solver has not started at the
\* step's end
C9_DropBlockers ==
    (directed /\ pc # "main" /\ drop_blockers /\ R_built # {}) =>
        /\ \A a, b \in largest_scc : SameScc(a, b)
        /\ \A n \in DriveNodes(G_drive) :
              Cardinality({m \in DriveNodes(G_drive) : SameScc(n, m)})
                  <= Cardinality(largest_scc)
        /\ R = {a \in R_built : a[1] \in largest_scc /\ a[2] \in largest_scc}
        /\ R_nodes = NodesOf(R)
        /\ pc = "preflight" => (E = <<>> /\ reps = <<>> /\ err = "none")

\* the drop step removed a blocker and its node, and kept another arc
C9_Witness ==
    /\ directed /\ pc = "preflight" /\ drop_blockers
    /\ R # {} /\ R # R_built
    /\ R_nodes # NodesOf(R_built)
    /\ \E a \in R_built \ R : a[1] \in largest_scc \/ a[2] \in largest_scc

\* C10: with no required edge, solve_rpp and solve_drpp return, and the E
\* they return has no edge
C10_EmptyRequiredSet ==
    (R_built = {} /\ pc \in {"returned", "error"}) => (pc = "returned" /\ E = <<>>)

\* the least weight of a path a -> b in D; -1 when there is none
Dist(a, b) ==
    LET ws == {PathWeight(G_drive, p) : p \in PathsFromTo(G_drive, a, b)}
    IN IF ws = {} THEN -1 ELSE CHOOSE w \in ws : \A x \in ws : w <= x

\* the edges of E after the first form a walk from a to b
WalkAfterFirst(Es, a, b) ==
    /\ Len(Es) >= 2
    /\ Es[2].u = a
    /\ Es[Len(Es)].v = b
    /\ \A i \in 2..(Len(Es) - 1) : Es[i].v = Es[i + 1].u

ExtraWeight(Es) == SeqSum([i \in 1..(Len(Es) - 1) |-> Es[i + 1].w])

\* R is the single edge (u, v) and a closed tour was returned
SingleEdgeReturned(u, v) ==
    /\ R = {<<u, v>>}
    /\ pc = "returned"
    /\ ~EndpointsGiven

\* solve_drpp on the single arc u -> v: the arc, then a least-weight path
\* v -> u of D
SingleArcCycle(u, v) ==
    /\ E[1] = Edge(u, v, "required", G_service[<<u, v>>])
    /\ WalkAfterFirst(E, v, u)
    /\ \A i \in 2..Len(E) : <<E[i].u, E[i].v>> \in DOMAIN G_drive
    /\ ExtraWeight(E) = Dist(v, u)

\* C11 as stated: with R a single edge (u, v), solve_rpp returns the edge
\* plus a path between u and v of the least weight over both directions,
\* and solve_drpp returns the arc plus a least-weight path v -> u
C11_SingleEdgeMinBothWays ==
    \A u, v \in Nodes :
        SingleEdgeReturned(u, v) =>
            IF directed THEN SingleArcCycle(u, v)
            ELSE /\ E[1] = Edge(u, v, "required", G_service[<<u, v>>])
                 /\ WalkAfterFirst(E, u, v)
                 /\ \A w \in {Dist(u, v), Dist(v, u)} \ {-1} : ExtraWeight(E) <= w

\* C11, amended: with R a single edge (u, v), u its first endpoint,
\* solve_rpp returns the edge plus a least-weight path u -> v of D, and a
\* least-weight path v -> u reversed only when D has no path u -> v;
\* solve_drpp returns the arc plus a least-weight path v -> u
C11_SingleEdgeForwardFirst ==
    \A u, v \in Nodes :
        SingleEdgeReturned(u, v) =>
            IF directed THEN SingleArcCycle(u, v)
            ELSE /\ E[1] = Edge(u, v, "required", G_service[<<u, v>>])
                 /\ WalkAfterFirst(E, u, v)
                 /\ \A i \in 2..Len(E) : E[i].kind = "duplicate"
                 /\ ExtraWeight(E) = (IF Dist(u, v) # -1 THEN Dist(u, v)
                                      ELSE Dist(v, u))

\* solve_rpp returned for a single edge (u, v) whose way back v -> u is
\* shorter in D than the way u -> v
C11_Witness ==
    \E u, v \in Nodes :
        /\ SingleEdgeReturned(u, v)
        /\ ~directed
        /\ Dist(v, u) # -1
        /\ Dist(v, u) < Dist(u, v)

\* the component of E that holds the node n
ComponentOf(n) == Reachable(Sym(EArcs(E)), n)

\* the node n was snapped correctly to the point target
SnappedTo(n, target) ==
    /\ n \in ENodes(E)
    /\ \A m \in ENodes(E) : Cardinality(ComponentOf(m)) <= Cardinality(ComponentOf(n))
    /\ node_xy[n] \in Nodes
    /\ \A m \in ComponentOf(n) :
          node_xy[m] \in Nodes =>
              haversine_m(target, node_xy[n]) <= haversine_m(target, node_xy[m])

\* C12: a node that select_start_node / select_endpoint_nodes returns lies
\* in a component of E of the largest size and is at the least distance to
\* the target among the nodes of that component; the tag is
\* "largest_component"
C12_EndpointSnapping ==
    (pc = "snapped") =>
        /\ SnappedTo(snapped.node, start_request)
        /\ snapped.distance = haversine_m(start_request, node_xy[snapped.node])
        /\ snapped.strategy = "largest_component"
        /\ end_node # 0 =>
              (SnappedTo(end_node, end_request)
                  /\ end_node \in ComponentOf(snapped.node))

\* a node was returned although a node of a smaller component is closer
C12_Witness ==
    /\ pc = "snapped"
    /\ \E m \in ENodes(E) \ ComponentOf(snapped.node) :
          /\ node_xy[m] \in Nodes
          /\ haversine_m(start_request, node_xy[m]) < snapped.distance
          /\ Cardinality(ComponentOf(m)) < Cardinality(ComponentOf(snapped.node))


\* C13: an end point without a start point is rejected: main raises the input
\* error with no graph loaded, nothing solved and nothing exported, and
\* export_gpx raises with no tour computed and no file written
C13_EndWithoutStart ==
    /\ (end_request # 0 /\ start_request = 0) =>
          /\ pc = "error"
          /\ err = "--end requires --start."
          /\ G_drive = <<>> /\ G_service = <<>>
          /\ E = <<>>
          /\ tour = <<>> /\ track = <<>>
          /\ files = {}
    /\ (end_node # 0 /\ start_node = 0 /\ pc # "returned") =>
          /\ pc = "error"
          /\ err = "end_node requires start_node"
          /\ tour = <<>> /\ track = <<>>
          /\ files = {}

C13_Witness ==
    /\ pc = "error"
    /\ err = "--end requires --start."
    /\ end_request # 0
    /\ start_request = 0


\* C14 as stated: no GPX file exists unless the solver has returned an E
C14_NoGpxBeforeSolverReturned ==
    files # {} => pc \in {"returned", "exported"}

\* C14: the route GPX is written only by an export that succeeded, after the
\* solver returned and the tour was extracted; at a failure the only file
\* that can exist is the blockers GPX that --drpp-blockers-gpx asked for,
\* written during the blocker analysis of a directed run
C14_NoRouteGpxOnFailure ==
    /\ "rpp_route.gpx" \in files => pc = "exported" /\ tour # <<>> /\ E # <<>>
    /\ pc = "error" => files \subseteq {"blockers.gpx"}
    /\ "blockers.gpx" \in files => directed /\ blockers_gpx /\ pc # "main"

C14_Witness ==
    /\ pc = "error"
    /\ err \notin {"--end requires --start.", "OSError"}
    /\ files = {"blockers.gpx"}


\* the strings of a tag value: the value itself, or the elements of a list
StringsOf(v) ==
    IF v.kind = "str" THEN {v.s}
    ELSE IF v.kind = "list" THEN {v.l[i] : i \in DOMAIN v.l}
    ELSE {}

SixHighways == {"footway", "pedestrian", "steps", "path", "corridor", "cycleway"}

\* some ';'-separated token of some string of the value, blanks around it
\* ignored (or not), is one of the six classes in lower case
HighwayExcluded(v, blanks_ignored) ==
    \E ps \in StringsOf(v) : \E i \in DOMAIN ps :
        /\ ps[i].word \in SixHighways
        /\ ~ps[i].upper
        /\ blanks_ignored \/ ~ps[i].pad

\* the value is a string that reads w once blanks around it are removed and
\* it is put in lower case
ReadsAs(v, w) == v.kind = "str" /\ Len(v.s) = 1 /\ v.s[1].word = w

\* the value is the string w up to the case of its letters
EqualsIgnoringCase(v, w) == ReadsAs(v, w) /\ ~v.s[1].pad

\* the value is the string w
EqualsExactly(v, w) == EqualsIgnoringCase(v, w) /\ ~v.s[1].upper

\* C15 as stated: service compared case-insensitively, everything else as
\* written
C15_EdgeFilterAsWritten ==
    pc = "filtered" =>
        /\ err = "none"
        /\ driveable = "false" <=>
              \/ HighwayExcluded(data.highway, FALSE)
              \/ EqualsIgnoringCase(data.service, "parking_aisle")
              \/ \E k \in {"motor_vehicle", "vehicle", "access"} :
                    \E w \in {"no", "private"} : EqualsExactly(data[k], w)

\* C15: is_driveable_edge returns false iff a highway token (blanks around
\* it ignored, case as written) is one of the six excluded classes, or
\* service reads parking_aisle, or motor_vehicle, vehicle or access reads no
\* or private, each of the four compared after removing blanks around the
\* value and lower-casing it; an edge with none of the tags passes; the
\* function does not raise
C15_EdgeFilter ==
    pc = "filtered" =>
        /\ err = "none"
        /\ driveable \in {"true", "false"}
        /\ driveable = "false" <=>
              \/ HighwayExcluded(data.highway, TRUE)
              \/ ReadsAs(data.service, "parking_aisle")
              \/ \E k \in {"motor_vehicle", "vehicle", "access"} :
                    \E w \in {"no", "private"} : ReadsAs(data[k], w)
        /\ (\A k \in TagKeys : data[k] = None) => driveable = "true"

C15_Witness ==
    /\ pc = "filtered"
    /\ driveable = "false"
    /\ data.highway = Str(<<Piece("residential", FALSE, FALSE)>>)
    /\ data.vehicle = Str(<<Piece("private", TRUE, TRUE)>>)
    /\ data.service = None /\ data.motor_vehicle = None /\ data.access = None


\* the input has an edge from u to v (between u and v, for the undirected
\* graph) that passes the filter and whose class, the first one of a list,
\* is a required one
HasRequiredInput(u, v) ==
    \E i \in DOMAIN G_tagged :
        /\ \/ G_tagged[i].u = u /\ G_tagged[i].v = v
           \/ ~directed /\ G_tagged[i].u = v /\ G_tagged[i].v = u
        /\ is_driveable_edge(G_tagged[i].data)
        /\ \E w \in {"residential", "living_street", "tertiary", "unclassified"} :
              \/ G_tagged[i].data.highway = Str(Plain(w))
              \/ /\ G_tagged[i].data.highway.kind = "list"
                 /\ G_tagged[i].data.highway.l # <<>>
                 /\ G_tagged[i].data.highway.l[1] = Plain(w)

InR(u, v) ==
    IF directed THEN <<u, v>> \in R_built
    ELSE <<u, v>> \in R_built \/ <<v, u>> \in R_built

\* C16: the required graph holds (u, v) iff the input has an arc u -> v (an
\* edge u - v) that passes the filter with a required class; an opposite
\* arc of another class or an excluded class adds nothing
C16_RequiredEdgeExtraction ==
    pc = "required_built" =>
        /\ \A u \in ExportNodes : \A v \in ExportNodes :
              InR(u, v) <=> HasRequiredInput(u, v)
        /\ \A i \in DOMAIN G_tagged :
              (directed /\ ~HasRequiredInput(G_tagged[i].v, G_tagged[i].u))
                  => <<G_tagged[i].v, G_tagged[i].u>> \notin R_built

\* the directed test case: A -> B residential, B -> A secondary
C16_Witness ==
    /\ pc = "required_built"
    /\ directed
    /\ G_tagged = <<[u |-> 1, v |-> 2, data |-> Tagged(Str(Plain("residential")))],
                    [u |-> 2, v |-> 1, data |-> Tagged(Str(Plain("secondary")))]>>
    /\ R_built = {<<1, 2>>}

\* C17: the required graph has at most one edge per pair of nodes and no
\* edge from a node to itself
C17_ShapeOfR ==
    pc = "required_built" =>
        /\ \A a \in R_built : a[1] # a[2]
        /\ \A a \in R_built : \A b \in R_built :
              (~directed /\ {a[1], a[2]} = {b[1], b[2]}) => a = b


\* the edge of E that the i-th step of the tour names by (u, v, key)
TourEdge(i) == EdgeAt(E, tour[i][1], tour[i][2], tour[i][3])

\* E has an Eulerian path from s to t and none that returns to s
PathEnds(s, t) ==
    IF directed THEN Delta(E, s) = 1 /\ Delta(E, t) = -1
    ELSE OddNodes(E) = {s, t}

StoredPolyline(i) == Geometry(E, TourEdge(i))

\* squared distance from the point p to the node n
D2(p, n) ==
    (p[1] - node_xy[n]) * (p[1] - node_xy[n]) + p[2] * p[2]

\* the order in which the stated rule emits the polyline p for u -> v
EmittedByRule(p, u, v) ==
    IF ~(D2(p[1], u) <= D2(p[1], v) /\ D2(p[Len(p)], v) <= D2(p[Len(p)], u))
    THEN [k \in DOMAIN p |-> p[Len(p) + 1 - k]]
    ELSE p

\* the track points (lat, lon) of the steps i.. of the tour, given the
\* points already written, with the polylines ordered by the stated rule
RECURSIVE TrackByRule(_, _)
TrackByRule(i, points) ==
    IF i > Len(tour) THEN points
    ELSE LET p == StoredPolyline(i)
             coords == IF p = <<>>
                       THEN <<<<node_xy[tour[i][1]], 0>>, <<node_xy[tour[i][2]], 0>>>>
                       ELSE EmittedByRule(p, tour[i][1], tour[i][2])
         IN TrackByRule(i + 1, AppendPoints(points, coords))

\* C19: every polyline is written reversed iff not (d2(p_0, u) <= d2(p_0, v)
\* and d2(p_k, v) <= d2(p_k, u)); a polyline that starts nearer u than v
\* and ends nearer v than u is written in stored order when travelled
\* u -> v and reversed when travelled v -> u
C19_PolylineOrientation ==
    pc = "exported" =>
        /\ track = TrackByRule(1, <<>>)
        /\ (Len(tour) = 1 /\ StoredPolyline(1) # <<>>) =>
              LET p == StoredPolyline(1)
                  a == tour[1][1]
                  b == tour[1][2]
                  stored == AppendPoints(<<>>, p)
                  reversed == AppendPoints(<<>>, <<p[2], p[1]>>)
              IN /\ (D2(p[1], a) < D2(p[1], b) /\ D2(p[2], b) < D2(p[2], a))
                       => track = stored
                 /\ (D2(p[1], b) < D2(p[1], a) /\ D2(p[2], a) < D2(p[2], b))
                       => track = reversed

\* one polyline 1 -> 2 travelled out and back
C19_Witness ==
    /\ pc = "exported"
    /\ Len(tour) = 2
    /\ tour[1][1] = 1 /\ tour[1][2] = 2 /\ tour[2][1] = 2 /\ tour[2][2] = 1
    /\ StoredPolyline(1) = <<<<1, 0>>, <<2, 0>>>>
    /\ StoredPolyline(2) = <<<<1, 0>>, <<2, 0>>>>
    /\ track = <<<<0, 1>>, <<0, 2>>, <<0, 1>>>>


\* how many times E holds each edge (each arc, for the directed solver)
Multiplicities(Es) ==
    LET key(e) == IF directed THEN <<e.u, e.v>> ELSE Canon(<<e.u, e.v>>)
    IN [a \in {key(Es[i]) : i \in DOMAIN Es} |->
           Cardinality({i \in DOMAIN Es : key(Es[i]) = a})]

\* the graphs solve_rpp can return for a closed tour when the component
\* representatives, in order, are r
RppResults(r) ==
    UNION {LET b == BuildBase(G_service, R, paths, FALSE)
               K == KGraph(G_drive, b.E, OddNodes(b.E))
           IN IF ~b.ok \/ NodesOf(DOMAIN K) # OddNodes(b.E) THEN {}
              ELSE UNION {{Multiplicities(AddPaths(b, G_service, dp, "duplicate", FALSE).E) :
                             dp \in PathChoices(G_drive, SortedArcs(M), TRUE)} :
                            M \in MinWeightMatchings(K)} :
             paths \in ConnectorChoices(G_drive, r)}

\* the base graphs solve_drpp can build when the representatives are r
DrppBases(r) ==
    {Multiplicities(BuildBase(G_service, R, paths, TRUE).E) :
        paths \in ConnectorChoices(G_drive, r)}

\* C20: the E that was produced is the E of every other order in which the
\* components and their nodes can be listed: for solve_rpp the E returned,
\* for solve_drpp the base graph that the balancing step starts from
C20_Determinism ==
    /\ (pc = "returned" /\ ~directed /\ start_node = 0) =>
          \A r \in RepChoices(Components(R, R_nodes)) :
              Multiplicities(E) \in RppResults(r)
    /\ (pc = "snap" /\ directed) =>
          \A r \in RepChoices(SCCs(R, R_nodes)) :
              Multiplicities(E) \in DrppBases(r)


\* the edges of E that were there before the matched paths were added
BeforeMatching == SelectSeq(E, LAMBDA e : e.kind # "duplicate")

\* C21: once solve_rpp is past the test that every odd-degree node has an
\* edge in K, the matching covers every odd-degree node exactly once, no
\* node of E is left with an odd degree, and the final Eulerian test does
\* not fail
C21_PerfectMatching ==
    /\ (pc = "step3" /\ ~directed /\ ~OpenRoute) =>
          /\ \A n \in OddNodes(BeforeMatching) :
                Cardinality({p \in matching : n \in {p[1], p[2]}}) = 1
          /\ OddNodes(E) = {}
    /\ ~directed => err # "NotEulerian"


\* the smallest node id of a set of nodes
MinNode(c) == CHOOSE n \in c : \A m \in c : n <= m

\* C22: the SCC that the blocker analysis takes as the largest one has the
\* most nodes of all SCCs of the driving graph and, among those of that
\* size, the smallest minimum node id
C22_LargestSccSelection ==
    (pc = "preflight" /\ largest_scc # {}) =>
        LET cs == SCCs(DOMAIN G_drive, DriveNodes(G_drive))
        IN /\ largest_scc \in cs
           /\ \A d \in cs : Cardinality(d) <= Cardinality(largest_scc)
           /\ \A d \in cs :
                 Cardinality(d) = Cardinality(largest_scc)
                     => MinNode(largest_scc) <= MinNode(d)


\* C23: once the blockers are dropped, solve_drpp does not fail for lack of
\* reachability: the multi-SCC test does not raise, every connector path
\* is a shortest path from one representative to the next, and at the
\* balancing step every node with a deficit reaches every node with a
\* surplus in the driving graph
C23_NoReachabilityFailureAfterDrop ==
    (directed /\ drop_blockers /\ pc # "main") =>
        /\ err \notin {"MultiSCCRequired", "RequiredNodesMissing",
                       "DisconnectedRequiredComponents", "FlowInfeasible"}
        /\ pc = "preflight" => PreflightCheck(G_drive, R_nodes) = "ok"
        /\ pc = "step0" =>
              \A r \in SccRepChoices(R, R_nodes) : \A i \in 1..(Len(r) - 1) :
                  ShortestPaths(G_drive, r[i], r[i + 1]) # {}
        /\ \A i \in DOMAIN connector_paths :
              connector_paths[i] \in ShortestPaths(G_drive, reps[i], reps[i + 1])
        /\ pc = "step2" =>
              \A i \in ENodes(E) : \A j \in ENodes(E) :
                  (Delta(E, i) < 0 /\ Delta(E, j) > 0)
                      => ShortestPaths(G_drive, i, j) # {}

\* a blocker was dropped, the components left were connected and the
\* degrees balanced by a flow
C23_Witness ==
    /\ directed /\ drop_blockers
    /\ pc = "returned"
    /\ R # R_built
    /\ connector_paths # <<>>
    /\ flow_result # NoCache

=============================================================================
